---- MODULE Spec2Model ----
(***************************************************************************)
(* DeepCare notebook (deepcare_code.ipynb): the cells that clean the       *)
(* demographics and visits tables, aggregate the hospital logs, integrate  *)
(* the three tables into df_final, export it, encode and scale it, cluster *)
(* it, balance the clustered table, split it, and fit and apply the three  *)
(* classifiers.  Tables are sequences of rows; a row is a record; a        *)
(* nullable column holds None (SQL NULL) or Some(v).  Columns that no      *)
(* property reads (zipcode, insurance, avg_monthly_income, ...) are        *)
(* projected away.                                                         *)
(***************************************************************************)
EXTENDS Integers, Sequences, FiniteSets, TLC

VARIABLES
    pc,               \* the next notebook cell to run
    raw_demo,         \* patient_demographics.csv as read by spark.read.csv
    raw_visits,       \* patient_visits.csv as read by spark.read.csv
    raw_logs,         \* hospital_logs.xml as read by the xml reader
    df_demo,          \* notebook global df_demo
    df_visits,        \* notebook global df_visits
    df_logs,          \* notebook global df_logs
    df_log_features,  \* notebook global df_log_features
    df_patient,       \* notebook global df_patient
    df_final,         \* notebook global df_final
    output_csv,       \* the lines of output.csv
    df_clustered,     \* notebook global df_clustered
    fraction,         \* the fraction argument of the sample call
    df_major_sampled, \* notebook global df_major_sampled
    df_balanced,      \* notebook global df_balanced
    df_preprocessed,  \* notebook global df_preprocessed
    sample_seed,      \* the draws that seed=42 gives the sample call
    split_seed,       \* the draws that seed=42 gives the randomSplit call
    df_cluster_ready, \* notebook global df_cluster_ready
    df_ml_ready,      \* notebook global df_ml_ready
    train,            \* notebook global train
    test,             \* notebook global test
    models,           \* notebook globals lr_model, rf_model, gbt_model
    predictions,      \* notebook globals lr_preds, rf_preds, gbt_preds
    results,          \* notebook global results
    final_preds       \* notebook global final_preds

vars == <<pc, raw_demo, raw_visits, raw_logs, df_demo, df_visits, df_logs,
          df_log_features, df_patient, df_final, output_csv, df_clustered,
          fraction, df_major_sampled, df_balanced, df_preprocessed,
          sample_seed, split_seed, df_cluster_ready, df_ml_ready, train, test,
          models, predictions, results, final_preds>>

\* the seeds and the globals of the cells after the balancing cell
model_vars == <<sample_seed, split_seed, df_cluster_ready, df_ml_ready, train,
                test, models, predictions, results, final_preds>>

\* the globals of the mining and modelling cells
mining_vars == <<df_preprocessed, model_vars>>

----------------------------------------------------------------------------
(* Nullable values and generic table helpers                               *)

None == {}

Some(v) == {v}

IsNull(x) == x = None

Get(x) == CHOOSE v \in x : TRUE

\* fillna left out: a null stays null
fillna_noop(x, value) == x

\* DataFrame.fillna({column: value}) on one cell
fillna(x, value) == IF IsNull(x) THEN Some(value) ELSE x

RECURSIVE Flatten(_)
Flatten(ss) ==
    IF ss = <<>> THEN <<>> ELSE Head(ss) \o Flatten(Tail(ss))

\* the rows of t whose patient_id is id, in table order
RowsOf(t, id) == SelectSeq(t, LAMBDA r : r.patient_id = id)

\* a.join(b, on="patient_id", how="inner"): one row per matching pair
InnerJoin(a, b) ==
    Flatten([i \in DOMAIN a |->
        LET m == RowsOf(b, a[i].patient_id)
        IN  [j \in DOMAIN m |-> a[i] @@ m[j]]])

\* a.join(b, on="patient_id", how="left"): unmatched rows of a get nulls
LeftJoin(a, b, nulls) ==
    Flatten([i \in DOMAIN a |->
        LET m == RowsOf(b, a[i].patient_id)
        IN  IF m = <<>> THEN <<a[i] @@ nulls>>
            ELSE [j \in DOMAIN m |-> a[i] @@ m[j]]])

----------------------------------------------------------------------------
(* Bounds and input domains                                                *)

MaxDemo == 2

MaxVisits == 2

MaxLogs == 2

RECURSIVE SeqOf(_)
SeqOf(S) ==
    IF S = {} THEN <<>>
    ELSE LET x == CHOOSE y \in S : TRUE IN <<x>> \o SeqOf(S \ {x})

\* every table of at most max rows drawn from Rows, up to row order (no
\* operation of the notebook depends on the order of the rows of a file)
TablesOver(Rows, max) ==
    LET L == SeqOf(Rows)
        n == Len(L)
        Idx(k) == {s \in [1..k -> 1..n] : \A i \in 1..(k - 1) : s[i] <= s[i + 1]}
    IN  UNION {{[i \in 1..k |-> L[s[i]]] : s \in Idx(k)} : k \in 0..max}

PatientIds == {1, 2}

----------------------------------------------------------------------------
(* preprocess_demographics                                                 *)

MaxChronic == 5

categorical_fill == "Unknown"

\* the lookup with "Male" missing from the first isin list
normalize_gender_short(g) ==
    IF g \in {Some("M")} THEN Some("Male")
    ELSE IF g \in {Some("F"), Some("Female")} THEN Some("Female")
    ELSE Some("Other")

normalize_gender(g) ==
    IF g \in {Some("M"), Some("Male")} THEN Some("Male")
    ELSE IF g \in {Some("F"), Some("Female")} THEN Some("Female")
    ELSE Some("Other")

\* the cap written as a clamp to 0..5
cap_chronic_clamped(c) ==
    IF IsNull(c) THEN c
    ELSE IF Get(c) > MaxChronic THEN Some(MaxChronic)
    ELSE IF Get(c) < 0 THEN Some(0)
    ELSE c

cap_chronic_conditions(c) ==
    IF ~IsNull(c) /\ Get(c) > MaxChronic THEN Some(MaxChronic) ELSE c

preprocess_demographics(t) ==
    [i \in DOMAIN t |->
        [t[i] EXCEPT
            !.gender = normalize_gender(fillna(@, categorical_fill)),
            !.chronic_conditions = cap_chronic_conditions(@)]]

----------------------------------------------------------------------------
(* preprocess_visits                                                       *)

drop_off_fill == 0

\* col.cast("int") on a column that inferSchema read as integer: the value
\* is kept and a null stays null
cast_int(x) == IF IsNull(x) THEN None ELSE Some(Get(x))

\* rows with a missing drop_off dropped (dropna) instead of filled
preprocess_visits_dropna(t) ==
    SelectSeq([i \in DOMAIN t |->
                  [t[i] EXCEPT !.drop_off = cast_int(@)]],
              LAMBDA r : ~IsNull(r.drop_off))

preprocess_visits(t) ==
    [i \in DOMAIN t |->
        [t[i] EXCEPT !.drop_off = cast_int(fillna(@, drop_off_fill))]]

----------------------------------------------------------------------------
(* preprocess_logs and the log features of the integration cell            *)

\* to_timestamp(text, "yyyy-MM-dd HH:mm"): minutes since 2023-01-01 00:00 of
\* the texts the inputs use; a text that does not match the format is null
Minutes ==
    ("2023-01-01 00:10" :> 10) @@ ("2023-01-01 00:20" :> 20)

to_timestamp(x) ==
    IF IsNull(x) THEN None
    ELSE IF Get(x) \in DOMAIN Minutes THEN Some(Minutes[Get(x)])
    ELSE None

preprocess_logs(t) ==
    [i \in DOMAIN t |->
        [t[i] EXCEPT !.timestamp = to_timestamp(@)]]

\* the keys of groupBy("patient_id"), one per group
group_keys(t) == SeqOf({t[i].patient_id : i \in DOMAIN t})

\* the aggregation with count("event") in place of countDistinct("event")
log_feature_agg_count(logs) ==
    LET ids == SeqOf({logs[i].patient_id : i \in DOMAIN logs})
    IN  [k \in DOMAIN ids |->
            LET g == RowsOf(logs, ids[k])
            IN  [patient_id    |-> ids[k],
                 log_count     |-> Some(Len(g)),
                 critical_logs |->
                     Some(Len(SelectSeq(g, LAMBDA r : r.log_type = Some("critical")))),
                 unique_events |->
                     Some(Len(SelectSeq(g, LAMBDA r : ~IsNull(r.event))))]]

\* groupBy("patient_id").agg(count("*"), count(when(log_type ==
\* "critical", True)), countDistinct("event"))
log_feature_agg(logs) ==
    LET ids == group_keys(logs)
    IN  [k \in DOMAIN ids |->
            LET g == RowsOf(logs, ids[k])
            IN  [patient_id    |-> ids[k],
                 log_count     |-> Some(Len(g)),
                 critical_logs |->
                     Some(Len(SelectSeq(g, LAMBDA r : r.log_type = Some("critical")))),
                 unique_events |->
                     Some(Cardinality({Get(g[i].event) :
                         i \in {j \in DOMAIN g : ~IsNull(g[j].event)}}))]]

\* the earliest timestamp of one group in place of the latest
min_timestamp(g) ==
    LET ts == {Get(g[i].timestamp) :
                  i \in {j \in DOMAIN g : ~IsNull(g[j].timestamp)}}
    IN  IF ts = {} THEN None
        ELSE Some(CHOOSE m \in ts : \A u \in ts : m <= u)

\* spark_max("timestamp") of one group: nulls are skipped, null if all are
max_timestamp(g) ==
    LET ts == {Get(g[i].timestamp) :
                  i \in {j \in DOMAIN g : ~IsNull(g[j].timestamp)}}
    IN  IF ts = {} THEN None
        ELSE Some(CHOOSE m \in ts : \A u \in ts : u <= m)

\* df_logs.join(latest_logs).filter(timestamp == latest_log_time)
\*     .select(patient_id, department) renamed to most_recent_department
latest_rows(logs) ==
    LET keep == SelectSeq(logs, LAMBDA r :
                    /\ ~IsNull(r.timestamp)
                    /\ r.timestamp = max_timestamp(RowsOf(logs, r.patient_id)))
    IN  [i \in DOMAIN keep |->
            [patient_id |-> keep[i].patient_id,
             most_recent_department |-> keep[i].department]]

\* dropDuplicates left out: every row with the latest timestamp is kept
keep_duplicates(t) == {t}

\* dropDuplicates(["patient_id"]): one row of each patient is kept, and
\* which one is not determined; the set of tables it can return
dropDuplicates(t) ==
    LET ids == group_keys(t)
        Pick == {f \in [DOMAIN ids -> DOMAIN t] :
                    \A k \in DOMAIN ids : t[f[k]].patient_id = ids[k]}
    IN  {[k \in DOMAIN ids |-> t[f[k]]] : f \in Pick}

\* the fill with most_recent_department left out
fill_log_counts_only(t) ==
    [i \in DOMAIN t |->
        [t[i] EXCEPT
            !.log_count = fillna(@, 0),
            !.critical_logs = fillna(@, 0),
            !.unique_events = fillna(@, 0)]]

\* fillna({log_count: 0, critical_logs: 0, unique_events: 0,
\*         most_recent_department: "Unknown"})
fill_log_features(t) ==
    [i \in DOMAIN t |->
        [t[i] EXCEPT
            !.log_count = fillna(@, 0),
            !.critical_logs = fillna(@, 0),
            !.unique_events = fillna(@, 0),
            !.most_recent_department = fillna(@, "Unknown")]]

\* df_log_features after the merge with latest_department and the fill
log_features(logs, latest_department) ==
    fill_log_features(
        LeftJoin(log_feature_agg(logs), latest_department,
                 [most_recent_department |-> None]))

\* the join written with how="left"
join_patient_left(demo, visits) == LeftJoin(demo, visits, [drop_off |-> None])

\* df_demo.join(df_visits, on="patient_id", how="inner")
join_patient(demo, visits) == InnerJoin(demo, visits)

\* the join with the log features written with how="inner"
join_final_inner(patient, features) ==
    fill_log_features(InnerJoin(patient, features))

\* df_patient.join(df_log_features, on="patient_id", how="left").fillna(...)
join_final(patient, features) ==
    fill_log_features(
        LeftJoin(patient, features,
                 [log_count |-> None, critical_logs |-> None,
                  unique_events |-> None, most_recent_department |-> None]))

----------------------------------------------------------------------------
(* df_final.toPandas().to_csv("output.csv", index=False)                   *)

csv_columns ==
    <<"patient_id", "gender", "chronic_conditions", "drop_off", "log_count",
      "critical_logs", "unique_events", "most_recent_department">>

has_null(t, c) == \E i \in DOMAIN t : IsNull(t[i][c])

\* a text cell; a null is written as the empty field
csv_text(x) == IF IsNull(x) THEN "" ELSE Get(x)

\* an integer cell; toPandas turns an integer column that holds a null into
\* a float column, whose numbers are written with a decimal point
csv_int(x, as_float) ==
    IF IsNull(x) THEN ""
    ELSE IF as_float THEN ToString(Get(x)) \o ".0"
    ELSE ToString(Get(x))

to_csv(t) ==
    <<csv_columns>> \o
    [i \in DOMAIN t |->
        <<ToString(t[i].patient_id),
          csv_text(t[i].gender),
          csv_int(t[i].chronic_conditions, has_null(t, "chronic_conditions")),
          csv_int(t[i].drop_off, has_null(t, "drop_off")),
          csv_int(t[i].log_count, has_null(t, "log_count")),
          csv_int(t[i].critical_logs, has_null(t, "critical_logs")),
          csv_int(t[i].unique_events, has_null(t, "unique_events")),
          csv_text(t[i].most_recent_department)>>]

----------------------------------------------------------------------------
(* The balancing cell                                                      *)

SampleNumerator == 24000

SampleDenominator == 559743

\* the majority filter taking a missing drop_off for 0
df_major_null_as_zero(t) ==
    SelectSeq(t, LAMBDA r : r.drop_off \in {None, Some(0)})

\* df_clustered.filter(col("drop_off") == 0); a null drop_off is not 0
df_major(t) == SelectSeq(t, LAMBDA r : r.drop_off = Some(0))

\* df_clustered.filter(col("drop_off") == 1)
df_minor(t) == SelectSeq(t, LAMBDA r : r.drop_off = Some(1))

\* the fraction argument of df_major.sample, as <<numerator, denominator>>
sample_fraction == <<SampleNumerator, SampleDenominator>>

\* the draws a seeded generator can give to the rows: yes for every row, for
\* none, for the rows at odd or at even positions
SeedStreams == {"all", "none", "odd", "even"}

\* the draw of the seed's generator for the row at position i
draw(seed, i) ==
    CASE seed = "all"  -> TRUE
      [] seed = "none" -> FALSE
      [] seed = "odd"  -> i % 2 = 1
      [] seed = "even" -> i % 2 = 0

\* the rows of t, counted from position i, whose draw is yes
RECURSIVE drawn(_, _, _, _)
drawn(t, seed, i, yes) ==
    IF t = <<>> THEN <<>>
    ELSE (IF draw(seed, i) = yes THEN <<Head(t)>> ELSE <<>>)
         \o drawn(Tail(t), seed, i + 1, yes)

\* t.sample(withReplacement=False, fraction, seed): every row is kept or
\* dropped on its own draw; the seed fixes the draws
sample(t, fr, seed) ==
    IF fr[1] <= 0 THEN <<>>
    ELSE IF fr[1] >= fr[2] THEN t
    ELSE drawn(t, seed, 1, TRUE)

\* union with the duplicate rows removed, as SQL UNION does
union_distinct(a, b) == SeqOf({(a \o b)[i] : i \in DOMAIN (a \o b)})

\* a.union(b): all rows of a, then all rows of b, duplicates kept
union(a, b) == a \o b

\* t.orderBy(rand()): the rows of t in an order drawn without a seed
order_by_rand(t) ==
    LET Perms == {p \in [DOMAIN t -> DOMAIN t] :
                     \A i, j \in DOMAIN t : p[i] = p[j] => i = j}
    IN  {[i \in DOMAIN t |-> t[p[i]]] : p \in Perms}

----------------------------------------------------------------------------
(* Encoding and scaling of the integrated table                            *)

\* categorical_cols, limited to the columns of the modelled tables
categorical_cols == <<"gender", "most_recent_department", "has_mobile_app">>

\* numerical_cols, limited to the columns of the modelled tables
numerical_cols ==
    <<"chronic_conditions", "log_count", "critical_logs", "unique_events">>

\* the names c + suffix for the columns c of cols, as the f-strings build them
suffixed(cols, suffix) == [k \in DOMAIN cols |-> cols[k] \o suffix]

\* preprocessed_cols
preprocessed_cols ==
    <<"drop_off">> \o suffixed(numerical_cols, "_scaled")
                   \o suffixed(categorical_cols, "_encoded")

\* DataFrame.withColumn with one value per row: adds or replaces a column
withColumn(t, name, vals) ==
    [i \in DOMAIN t |-> (name :> vals[i]) @@ t[i]]

\* DataFrame.select(cols)
select(t, cols) ==
    [i \in DOMAIN t |-> [k \in {cols[j] : j \in DOMAIN cols} |-> t[i][k]]]

\* the number of rows of t whose column c holds v
value_counts(t, c, v) == Len(SelectSeq(t, LAMBDA r : r[c] = Some(v)))

\* StringIndexer.fit: the labels are the values present in the column,
\* ordered by descending frequency; the order among equally frequent values
\* depends on the library version, so every such order is possible
string_indexer_fit(t, c) ==
    LET seen == {Get(t[i][c]) : i \in {j \in DOMAIN t : ~IsNull(t[j][c])}}
    IN  {l \in [1..Cardinality(seen) -> seen] :
            /\ \A i, j \in DOMAIN l : l[i] = l[j] => i = j
            /\ \A i, j \in DOMAIN l :
                  i < j => value_counts(t, c, l[i]) >= value_counts(t, c, l[j])}

\* the indexer sending a value without a label to index 0
string_indexer_transform_zero(labels, cell) ==
    IF \E k \in DOMAIN labels : cell = Some(labels[k])
    THEN (CHOOSE k \in DOMAIN labels : cell = Some(labels[k])) - 1
    ELSE 0

\* StringIndexerModel.transform with handleInvalid="keep": the index of the
\* label, and the number of labels for a value that has no label
string_indexer_transform(labels, cell) ==
    IF \E k \in DOMAIN labels : cell = Some(labels[k])
    THEN (CHOOSE k \in DOMAIN labels : cell = Some(labels[k])) - 1
    ELSE Len(labels)

\* the number of categories without the extra one of handleInvalid="keep"
category_size_seen(labels) == Len(labels)

\* the number of categories the indexer records on its output column: the
\* labels and, with handleInvalid="keep", one more for values without label
category_size(labels) == Len(labels) + 1

\* the one-hot vector with its entry one position too far
one_hot_encoder_shifted(size, idx) ==
    [k \in 1..(size - 1) |-> IF k = idx + 2 THEN 1 ELSE 0]

\* OneHotEncoderModel.transform with the default dropLast=True: a vector of
\* size - 1 entries, the entry of the category set to 1, none for the last
one_hot_encoder(size, idx) ==
    [k \in 1..(size - 1) |-> IF k = idx + 1 THEN 1 ELSE 0]

\* one pass of the encoding loop for column c with the fitted labels
encode_column(t, c, labels) ==
    LET idx == [i \in DOMAIN t |-> string_indexer_transform(labels, t[i][c])]
        indexed == withColumn(t, c \o "_index", idx)
    IN  withColumn(indexed, c \o "_encoded",
            [i \in DOMAIN t |-> one_hot_encoder(category_size(labels), idx[i])])

\* the encoding loop over cols: the tables it can produce
RECURSIVE encode_categoricals(_, _)
encode_categoricals(t, cols) ==
    IF cols = <<>> THEN {t}
    ELSE UNION {encode_categoricals(encode_column(t, Head(cols), l), Tail(cols)) :
                   l \in string_indexer_fit(t, Head(cols))}

\* the sum of the values of column c, or of their squares
RECURSIVE column_sum(_, _, _)
column_sum(t, c, square) ==
    IF t = <<>> THEN 0
    ELSE (IF square THEN Get(Head(t)[c]) * Get(Head(t)[c]) ELSE Get(Head(t)[c]))
         + column_sum(Tail(t), c, square)

\* StandardScaler.fit on column c: n, the sum and the sum of squares stand
\* for the mean sum / n and the sample variance
\* (n * sumsq - sum * sum) / (n * (n - 1))
standard_scaler_fit(t, c) ==
    [n |-> Len(t), sum |-> column_sum(t, c, FALSE),
     sumsq |-> column_sum(t, c, TRUE)]

\* the scaler dividing by the standard deviation also when it is zero
standardize_unguarded(m, x) ==
    [nan      |-> m.n * m.sumsq - m.sum * m.sum = 0,
     centered |-> m.n * x - m.sum,
     variance |-> m.n * m.sumsq - m.sum * m.sum]

\* StandardScalerModel.transform with withMean and withStd: (x - mean) *
\* scale, where scale is 1 / std, and 0.0 when std is 0.  The value is kept
\* as n * (x - mean) and n * (n - 1) * variance, which determine it
standardize(m, x) ==
    IF m.n * m.sumsq - m.sum * m.sum = 0
    THEN [nan |-> FALSE, centered |-> 0, variance |-> 0]
    ELSE [nan      |-> FALSE,
          centered |-> m.n * x - m.sum,
          variance |-> m.n * m.sumsq - m.sum * m.sum]

\* the scaling loop over cols; VectorAssembler (handleInvalid="error")
\* raises on a missing value when scaler.fit evaluates the column
RECURSIVE scale_numericals(_, _)
scale_numericals(t, cols) ==
    IF cols = <<>> THEN [failed |-> FALSE, table |-> t]
    ELSE LET c == Head(cols)
             m == standard_scaler_fit(t, c)
         IN  IF \E i \in DOMAIN t : IsNull(t[i][c])
             THEN [failed |-> TRUE, table |-> t]
             ELSE scale_numericals(
                      withColumn(
                          withColumn(t, c \o "_vec",
                              [i \in DOMAIN t |-> <<Get(t[i][c])>>]),
                          c \o "_scaled",
                          [i \in DOMAIN t |-> <<standardize(m, Get(t[i][c]))>>]),
                      Tail(cols))

----------------------------------------------------------------------------
(* Clustering, supervised features, split, classifiers and predictions     *)

\* clustering_features: the columns of df_preprocessed whose names end with
\* "_scaled" or "_encoded"
clustering_features ==
    suffixed(numerical_cols, "_scaled") \o suffixed(categorical_cols, "_encoded")

\* DataFrame.columns
columns(t) == UNION {DOMAIN t[i] : i \in DOMAIN t}

\* DataFrame.drop(name): no effect when there is no such column
drop(t, name) ==
    [i \in DOMAIN t |-> [k \in (DOMAIN t[i]) \ {name} |-> t[i][k]]]

\* DataFrame.withColumnRenamed(old, new)
withColumnRenamed(t, old, new) ==
    [i \in DOMAIN t |->
        [k \in ((DOMAIN t[i]) \ {old}) \cup {new} |->
            IF k = new THEN t[i][old] ELSE t[i][k]]]

\* the entries of the input columns of one row, one after the other: the
\* entries of a vector column, the number of a numeric column
RECURSIVE assemble_row(_, _)
assemble_row(r, cols) ==
    IF cols = <<>> THEN <<>>
    ELSE (CASE cols[1] = "patient_segment" -> <<r[cols[1]]>>
            [] cols[1] = "drop_off" -> <<Get(r[cols[1]])>>
            [] OTHER -> r[cols[1]])
         \o assemble_row(r, Tail(cols))

\* VectorAssembler(inputCols, outputCol="features").transform(t)
vector_assembler(t, inputCols) ==
    withColumn(t, "features", [i \in DOMAIN t |-> assemble_row(t[i], inputCols)])

\* k of KMeans
NumClusters == 3

\* KMeans(k=3, seed=42).fit(t): the model sends every feature vector of t
\* to the number of its nearest centre, one of 0 .. k-1; which one is left
\* open, equal vectors get the same number
kmeans_fit(t, k) == [{t[i].features : i \in DOMAIN t} -> 0..(k - 1)]

\* a clustering that numbers the clusters from 1
kmeans_transform_from_one(model, t) ==
    withColumn(t, "cluster", [i \in DOMAIN t |-> model[t[i].features] + 1])

\* KMeansModel.transform(t) with predictionCol="cluster"
kmeans_transform(model, t) ==
    withColumn(t, "cluster", [i \in DOMAIN t |-> model[t[i].features]])

\* the supervised inputs with the label among them
ml_features_with_label(t) ==
    SelectSeq(clustering_features, LAMBDA c : c \in columns(t))
        \o <<"patient_segment", "drop_off">>

\* ml_features: the "_scaled" and "_encoded" columns of df_balanced, then
\* patient_segment
ml_features(t) ==
    SelectSeq(clustering_features, LAMBDA c : c \in columns(t))
        \o <<"patient_segment">>

\* a split that puts every row into the train part and the drawn rows into
\* the test part as well
random_split_overlapping(t, seed) ==
    [train |-> t, test |-> drawn(t, seed, 1, FALSE)]

\* t.randomSplit([0.7, 0.3], seed): one draw per row decides between the
\* two parts
random_split(t, seed) ==
    [train |-> drawn(t, seed, 1, TRUE), test |-> drawn(t, seed, 1, FALSE)]

\* classifier.fit(data): the fitted model, known by its algorithm and the
\* table it was fitted on
fit(algorithm, data) == [algorithm |-> algorithm, fitted_on |-> data]

\* model.transform(data): data with the model's prediction and probability
\* for the features of each row
transform(model, data) ==
    [i \in DOMAIN data |->
        ("prediction" :> [value |-> "prediction", of |-> model,
                          at |-> data[i].features])
        @@ ("probability" :> [value |-> "probability", of |-> model,
                              at |-> data[i].features])
        @@ data[i]]

\* evaluator.evaluate(preds): the metric of the predictions it is given
evaluate(metricName, preds) == [metric |-> metricName, of |-> preds]

\* extract_prob: the entry for class 1 of the probability vector
extract_prob(prob_vector) == [value |-> "probability[1]", of |-> prob_vector]

----------------------------------------------------------------------------
(* The notebook cells, in the order they run                               *)

\* df_demo = preprocess_demographics(spark, patient_demographics_path)
CellDemographics ==
    /\ pc = "preprocess_demographics"
    /\ df_demo' = preprocess_demographics(raw_demo)
    /\ pc' = "preprocess_visits"
    /\ UNCHANGED <<raw_demo, raw_visits, raw_logs, df_visits, df_logs,
                   df_log_features, df_patient, df_final, output_csv,
                   df_clustered, fraction, df_major_sampled, df_balanced, mining_vars>>

\* df_visits = preprocess_visits(spark, patient_visits_path)
CellVisits ==
    /\ pc = "preprocess_visits"
    /\ df_visits' = preprocess_visits(raw_visits)
    /\ pc' = "preprocess_logs"
    /\ UNCHANGED <<raw_demo, raw_visits, raw_logs, df_demo, df_logs,
                   df_log_features, df_patient, df_final, output_csv,
                   df_clustered, fraction, df_major_sampled, df_balanced, mining_vars>>

\* df_logs = preprocess_logs(spark, hospital_path)
CellLogs ==
    /\ pc = "preprocess_logs"
    /\ df_logs' = preprocess_logs(raw_logs)
    /\ pc' = "integrate"
    /\ UNCHANGED <<raw_demo, raw_visits, raw_logs, df_demo, df_visits,
                   df_log_features, df_patient, df_final, output_csv,
                   df_clustered, fraction, df_major_sampled, df_balanced, mining_vars>>

\* the integration cell: it reads the three files again, so the tables it
\* joins are the files' rows and not the results of the cells above
CellIntegrate ==
    /\ pc = "integrate"
    /\ LET demo == raw_demo
           visits == raw_visits
           logs == preprocess_logs(raw_logs)
       IN  \E latest_department \in dropDuplicates(latest_rows(logs)) :
              LET features == log_features(logs, latest_department)
                  patient == join_patient(demo, visits)
              IN  /\ df_demo' = demo
                  /\ df_visits' = visits
                  /\ df_logs' = logs
                  /\ df_log_features' = features
                  /\ df_patient' = patient
                  /\ df_final' = join_final(patient, features)
    /\ pc' = "export"
    /\ UNCHANGED <<raw_demo, raw_visits, raw_logs, output_csv, df_clustered,
                   fraction, df_major_sampled, df_balanced, mining_vars>>

\* df_final.toPandas().to_csv("output.csv", index=False)
CellExport ==
    /\ pc = "export"
    /\ output_csv' = to_csv(df_final)
    /\ pc' = "encode"
    /\ UNCHANGED <<raw_demo, raw_visits, raw_logs, df_demo, df_visits, df_logs,
                   df_log_features, df_patient, df_final, df_clustered,
                   fraction, df_major_sampled, df_balanced, mining_vars>>

\* the encoding and scaling cell
CellEncode ==
    /\ pc = "encode"
    /\ \E enc \in encode_categoricals(df_final, categorical_cols) :
          LET scaled == scale_numericals(enc, numerical_cols)
          IN  /\ df_final' = scaled.table
              /\ IF scaled.failed
                 THEN /\ pc' = "failed"
                      /\ UNCHANGED df_preprocessed
                 ELSE /\ pc' = "cluster_ready"
                      /\ df_preprocessed' =
                             select(scaled.table, preprocessed_cols)
    /\ UNCHANGED <<raw_demo, raw_visits, raw_logs, df_demo, df_visits, df_logs,
                   df_log_features, df_patient, output_csv, df_clustered,
                   fraction, df_major_sampled, df_balanced, model_vars>>

\* df_cluster_ready = vec_assembler.transform(df_preprocessed)
CellClusterReady ==
    /\ pc = "cluster_ready"
    /\ df_cluster_ready' = vector_assembler(df_preprocessed, clustering_features)
    /\ pc' = "kmeans"
    /\ UNCHANGED <<raw_demo, raw_visits, raw_logs, df_demo, df_visits, df_logs,
                   df_log_features, df_patient, df_final, output_csv,
                   df_clustered, fraction, df_major_sampled, df_balanced,
                   df_preprocessed, sample_seed, split_seed, df_ml_ready,
                   train, test, models, predictions, results, final_preds>>

\* kmeans_model = kmeans.fit(df_cluster_ready);
\* df_clustered = kmeans_model.transform(df_cluster_ready)
CellKMeans ==
    /\ pc = "kmeans"
    /\ \E kmeans_model \in kmeans_fit(df_cluster_ready, NumClusters) :
          df_clustered' = kmeans_transform(kmeans_model, df_cluster_ready)
    /\ pc' = "rename"
    /\ UNCHANGED <<raw_demo, raw_visits, raw_logs, df_demo, df_visits, df_logs,
                   df_log_features, df_patient, df_final, output_csv,
                   fraction, df_major_sampled, df_balanced, df_preprocessed,
                   sample_seed, split_seed, df_cluster_ready, df_ml_ready,
                   train, test, models, predictions, results, final_preds>>

\* df_clustered = df_clustered.withColumnRenamed("cluster", "patient_segment")
CellRename ==
    /\ pc = "rename"
    /\ df_clustered' = withColumnRenamed(df_clustered, "cluster", "patient_segment")
    /\ pc' = "balance"
    /\ UNCHANGED <<raw_demo, raw_visits, raw_logs, df_demo, df_visits, df_logs,
                   df_log_features, df_patient, df_final, output_csv,
                   fraction, df_major_sampled, df_balanced, df_preprocessed,
                   sample_seed, split_seed, df_cluster_ready, df_ml_ready,
                   train, test, models, predictions, results, final_preds>>

\* the balancing cell
CellBalance ==
    /\ pc = "balance"
    /\ fraction' = sample_fraction
    /\ df_major_sampled' =
          sample(df_major(df_clustered), sample_fraction, sample_seed)
    /\ \E b \in order_by_rand(union(
                  sample(df_major(df_clustered), sample_fraction, sample_seed),
                  df_minor(df_clustered))) :
          df_balanced' = b
    /\ pc' = "assemble"
    /\ UNCHANGED <<raw_demo, raw_visits, raw_logs, df_demo, df_visits, df_logs,
                   df_log_features, df_patient, df_final, output_csv,
                   df_clustered, mining_vars>>

\* the cell assembling the supervised features
CellAssemble ==
    /\ pc = "assemble"
    /\ df_balanced' = drop(df_balanced, "features")
    /\ df_ml_ready' = vector_assembler(drop(df_balanced, "features"),
                                       ml_features(df_balanced))
    /\ pc' = "split"
    /\ UNCHANGED <<raw_demo, raw_visits, raw_logs, df_demo, df_visits, df_logs,
                   df_log_features, df_patient, df_final, output_csv,
                   df_clustered, fraction, df_major_sampled, df_preprocessed,
                   sample_seed, split_seed, df_cluster_ready,
                   train, test, models, predictions, results, final_preds>>

\* train, test = df_ml_ready.randomSplit([0.7, 0.3], seed=42)
CellSplit ==
    /\ pc = "split"
    /\ train' = random_split(df_ml_ready, split_seed).train
    /\ test' = random_split(df_ml_ready, split_seed).test
    /\ pc' = "train"
    /\ UNCHANGED <<raw_demo, raw_visits, raw_logs, df_demo, df_visits, df_logs,
                   df_log_features, df_patient, df_final, output_csv,
                   df_clustered, fraction, df_major_sampled, df_balanced,
                   df_preprocessed, sample_seed, split_seed, df_cluster_ready,
                   df_ml_ready, models, predictions, results, final_preds>>

\* the cell fitting and evaluating the three classifiers; models holds
\* lr_model, rf_model and gbt_model, predictions holds lr_preds, rf_preds
\* and gbt_preds
CellTrain ==
    /\ pc = "train"
    /\ train # <<>>
    /\ LET lr_model == fit("Logistic Regression", train)
           rf_model == fit("Random Forest", train)
           gbt_model == fit("Gradient Boosted Trees", train)
           lr_preds == transform(lr_model, test)
           rf_preds == transform(rf_model, test)
           gbt_preds == transform(gbt_model, test)
       IN  /\ models' = [lr_model |-> lr_model, rf_model |-> rf_model,
                         gbt_model |-> gbt_model]
           /\ predictions' = [lr_preds |-> lr_preds, rf_preds |-> rf_preds,
                              gbt_preds |-> gbt_preds]
           /\ results' =
                 <<<<"Logistic Regression", evaluate("areaUnderROC", lr_preds),
                     evaluate("accuracy", lr_preds)>>,
                   <<"Random Forest", evaluate("areaUnderROC", rf_preds),
                     evaluate("accuracy", rf_preds)>>,
                   <<"Gradient Boosted Trees", evaluate("areaUnderROC", gbt_preds),
                     evaluate("accuracy", gbt_preds)>>>>
    /\ pc' = "predictions"
    /\ UNCHANGED <<raw_demo, raw_visits, raw_logs, df_demo, df_visits, df_logs,
                   df_log_features, df_patient, df_final, output_csv,
                   df_clustered, fraction, df_major_sampled, df_balanced,
                   df_preprocessed, sample_seed, split_seed, df_cluster_ready,
                   df_ml_ready, train, test, final_preds>>

\* lr.fit(train) raises on a train split without rows
CellTrainFails ==
    /\ pc = "train"
    /\ train = <<>>
    /\ pc' = "failed"
    /\ UNCHANGED <<raw_demo, raw_visits, raw_logs, df_demo, df_visits, df_logs,
                   df_log_features, df_patient, df_final, output_csv,
                   df_clustered, fraction, df_major_sampled, df_balanced,
                   df_preprocessed, sample_seed, split_seed, df_cluster_ready,
                   df_ml_ready, train, test, models, predictions, results,
                   final_preds>>

\* the cell exporting drop_off_predictions.csv
CellPredictions ==
    /\ pc = "predictions"
    /\ LET gbt_preds_export ==
               withColumn(predictions.gbt_preds, "prob_dropoff",
                   [i \in DOMAIN predictions.gbt_preds |->
                       extract_prob(predictions.gbt_preds[i].probability)])
       IN  final_preds' = select(gbt_preds_export,
               <<"drop_off", "prediction", "prob_dropoff", "patient_segment">>)
    /\ pc' = "done"
    /\ UNCHANGED <<raw_demo, raw_visits, raw_logs, df_demo, df_visits, df_logs,
                   df_log_features, df_patient, df_final, output_csv,
                   df_clustered, fraction, df_major_sampled, df_balanced,
                   df_preprocessed, sample_seed, split_seed, df_cluster_ready,
                   df_ml_ready, train, test, models, predictions, results>>

----------------------------------------------------------------------------
(* Inputs and specifications                                               *)

\* rows of patient_demographics.csv for the whole pipeline
DemoRows ==
    {[patient_id |-> id, gender |-> v[1], chronic_conditions |-> v[2]] :
        id \in PatientIds,
        v \in {<<Some("M"), Some(7)>>, <<Some("Female"), Some(2)>>,
               <<None, None>>}}

\* rows of patient_visits.csv for the whole pipeline
VisitRows ==
    {[patient_id |-> id, drop_off |-> d] :
        id \in PatientIds, d \in {None, Some(0), Some(1)}}

\* <log> elements of hospital_logs.xml for the whole pipeline
LogRows ==
    {[patient_id |-> id, log_type |-> v[1], department |-> v[2],
      event |-> v[3], timestamp |-> Some("2023-01-01 00:20")] :
        id \in PatientIds,
        v \in {<<Some("critical"), Some("Ortho"), Some("Checked-In")>>,
               <<Some("info"), Some("General"), Some("Procedure")>>}}

\* rows of patient_demographics.csv that exercise every branch of the cleaner
WideDemoRows ==
    {[patient_id |-> 1, gender |-> g, chronic_conditions |-> c] :
        g \in {None, Some("M"), Some("Male"), Some("F"), Some("Female"),
               Some("m"), Some("Unknown"), Some("Other")},
        c \in {None, Some(-1), Some(0), Some(5), Some(6), Some(7)}}

\* rows of patient_visits.csv that exercise every branch of the cleaner
WideVisitRows ==
    {[patient_id |-> id, drop_off |-> d] :
        id \in PatientIds,
        d \in {None, Some(-1), Some(0), Some(1), Some(2), Some(7)}}

\* <log> elements of hospital_logs.xml that exercise the aggregation: equal
\* and different timestamps, a text that is no timestamp, missing fields
WideLogRows ==
    {[patient_id |-> id, log_type |-> v[1], department |-> v[2],
      event |-> v[3], timestamp |-> v[4]] :
        id \in PatientIds,
        v \in {<<Some("critical"), Some("Ortho"), Some("Checked-In"),
                 Some("2023-01-01 00:20")>>,
               <<Some("info"), Some("General"), Some("Procedure"),
                 Some("2023-01-01 00:20")>>,
               <<Some("info"), Some("Neurology"), Some("Checked-In"),
                 Some("2023-01-01 00:10")>>,
               <<None, None, None, Some("2023-01-01 00:20")>>,
               <<Some("critical"), Some("General"), Some("Procedure"),
                 Some("01/01/2023")>>}}

MaxEncode == 3

\* rows of the integrated table for the encoding cell: genders of equal and
\* different frequency, missing gender, has_mobile_app and
\* chronic_conditions, patients with and without log events
EncodeRows ==
    {[patient_id |-> 1, gender |-> g, chronic_conditions |-> ch,
      drop_off |-> IF ch = Some(7) THEN Some(1) ELSE Some(0),
      log_count |-> l[1], critical_logs |-> l[2], unique_events |-> l[3],
      most_recent_department |-> l[4], has_mobile_app |-> l[5]] :
        g \in {Some("M"), Some("Female"), None},
        ch \in {Some(2), Some(7), None},
        l \in {<<Some(2), Some(1), Some(1), Some("Ortho"), Some("Yes")>>,
               <<Some(0), Some(0), Some(0), Some("Unknown"), None>>}}

MaxSegment == 2

\* rows of the integrated table for the cells from encoding to predictions
SegmentRows ==
    {[patient_id |-> 1, gender |-> v[1], chronic_conditions |-> v[2],
      drop_off |-> v[3], log_count |-> Some(2), critical_logs |-> Some(1),
      unique_events |-> Some(1), most_recent_department |-> Some("Ortho"),
      has_mobile_app |-> None] :
        v \in {<<Some("M"), Some(7), Some(1)>>,
               <<Some("Female"), Some(2), Some(0)>>,
               <<Some("M"), Some(2), Some(0)>>,
               <<Some("Female"), Some(2), Some(1)>>}}


MaxClustered == 4

\* rows of df_clustered: the drop_off of df_final and the KMeans label
ClusteredRows ==
    {[drop_off |-> d, patient_segment |-> k] :
        d \in {None, Some(0), Some(1), Some(2)}, k \in {0, NumClusters - 1}}

\* nothing has run: every notebook global is still empty
\* the seeds are not used before the balancing cell
SeedsUnused ==
    /\ sample_seed = "unused"
    /\ split_seed = "unused"

NoGlobals ==
    /\ df_demo = <<>>
    /\ df_visits = <<>>
    /\ df_logs = <<>>
    /\ df_log_features = <<>>
    /\ df_patient = <<>>
    /\ df_final = <<>>
    /\ output_csv = <<>>
    /\ fraction = <<>>
    /\ df_major_sampled = <<>>
    /\ df_balanced = <<>>
    /\ df_preprocessed = <<>>
    /\ df_cluster_ready = <<>>
    /\ df_ml_ready = <<>>
    /\ train = <<>>
    /\ test = <<>>
    /\ models = <<>>
    /\ predictions = <<>>
    /\ results = <<>>
    /\ final_preds = <<>>

Init ==
    /\ pc = "preprocess_demographics"
    /\ raw_demo \in TablesOver(DemoRows, MaxDemo)
    /\ raw_visits \in TablesOver(VisitRows, MaxVisits)
    /\ raw_logs \in TablesOver(LogRows, MaxLogs)
    /\ df_clustered = <<>>
    /\ NoGlobals
    /\ SeedsUnused

InitDemographics ==
    /\ pc = "preprocess_demographics"
    /\ raw_demo \in TablesOver(WideDemoRows, MaxDemo)
    /\ raw_visits = <<>>
    /\ raw_logs = <<>>
    /\ df_clustered = <<>>
    /\ NoGlobals
    /\ SeedsUnused

InitVisits ==
    /\ pc = "preprocess_demographics"
    /\ raw_demo = <<>>
    /\ raw_visits \in TablesOver(WideVisitRows, MaxVisits)
    /\ raw_logs = <<>>
    /\ df_clustered = <<>>
    /\ NoGlobals
    /\ SeedsUnused

InitLogs ==
    /\ pc = "preprocess_demographics"
    /\ raw_demo = <<[patient_id |-> 1, gender |-> Some("M"),
                     chronic_conditions |-> Some(7)],
                    [patient_id |-> 2, gender |-> Some("Female"),
                     chronic_conditions |-> Some(2)]>>
    /\ raw_visits = <<[patient_id |-> 1, drop_off |-> Some(1)],
                      [patient_id |-> 2, drop_off |-> Some(0)]>>
    /\ raw_logs \in TablesOver(WideLogRows, MaxLogs)
    /\ df_clustered = <<>>
    /\ NoGlobals
    /\ SeedsUnused

InitEncode ==
    /\ pc = "encode"
    /\ raw_demo = <<>>
    /\ raw_visits = <<>>
    /\ raw_logs = <<>>
    /\ df_clustered = <<>>
    /\ df_demo = <<>>
    /\ df_visits = <<>>
    /\ df_logs = <<>>
    /\ df_log_features = <<>>
    /\ df_patient = <<>>
    /\ df_final \in TablesOver(EncodeRows, MaxEncode) \ {<<>>}
    /\ output_csv = <<>>
    /\ fraction = <<>>
    /\ df_major_sampled = <<>>
    /\ df_balanced = <<>>
    /\ df_preprocessed = <<>>
    /\ df_cluster_ready = <<>>
    /\ df_ml_ready = <<>>
    /\ train = <<>>
    /\ test = <<>>
    /\ models = <<>>
    /\ predictions = <<>>
    /\ results = <<>>
    /\ final_preds = <<>>
    /\ SeedsUnused

InitSegment ==
    /\ pc = "encode"
    /\ raw_demo = <<>>
    /\ raw_visits = <<>>
    /\ raw_logs = <<>>
    /\ df_clustered = <<>>
    /\ df_demo = <<>>
    /\ df_visits = <<>>
    /\ df_logs = <<>>
    /\ df_log_features = <<>>
    /\ df_patient = <<>>
    /\ df_final \in TablesOver(SegmentRows, MaxSegment) \ {<<>>}
    /\ output_csv = <<>>
    /\ fraction = <<>>
    /\ df_major_sampled = <<>>
    /\ df_balanced = <<>>
    /\ df_preprocessed = <<>>
    /\ df_cluster_ready = <<>>
    /\ df_ml_ready = <<>>
    /\ train = <<>>
    /\ test = <<>>
    /\ models = <<>>
    /\ predictions = <<>>
    /\ results = <<>>
    /\ final_preds = <<>>
    /\ sample_seed \in SeedStreams
    /\ split_seed \in SeedStreams

InitBalance ==
    /\ pc = "balance"
    /\ raw_demo = <<>>
    /\ raw_visits = <<>>
    /\ raw_logs = <<>>
    /\ df_clustered \in TablesOver(ClusteredRows, MaxClustered)
    /\ NoGlobals
    /\ sample_seed \in SeedStreams
    /\ split_seed \in SeedStreams

Next ==
    \/ CellDemographics
    \/ CellVisits
    \/ CellLogs
    \/ CellIntegrate
    \/ CellExport

NextBalance ==
    \/ CellBalance
    \/ CellAssemble
    \/ CellSplit
    \/ CellTrain
    \/ CellTrainFails
    \/ CellPredictions

NextSegment ==
    \/ CellEncode
    \/ CellClusterReady
    \/ CellKMeans
    \/ CellRename
    \/ CellBalance
    \/ CellAssemble
    \/ CellSplit
    \/ CellTrain
    \/ CellTrainFails
    \/ CellPredictions

NextEncode == CellEncode

Spec == Init /\ [][Next]_vars

SpecDemographics == InitDemographics /\ [][Next]_vars

SpecVisits == InitVisits /\ [][Next]_vars

SpecLogs == InitLogs /\ [][Next]_vars

SpecEncode == InitEncode /\ [][NextEncode]_vars

SpecSegment == InitSegment /\ [][NextSegment]_vars

SpecBalance == InitBalance /\ [][NextBalance]_vars

----------------------------------------------------------------------------
(* Properties                                                              *)

\* df_demo holds the result of preprocess_demographics
DemoCleaned == pc \in {"preprocess_visits", "preprocess_logs", "integrate"}

\* df_visits holds the result of preprocess_visits
VisitsCleaned == pc \in {"preprocess_logs", "integrate"}

\* the integration cell has run
Integrated == pc \in {"export", "encode"}

\* output.csv has been written
Exported == pc = "encode"

\* the balancing cell has run
Balanced == pc = "assemble"

IdsOf(t) == {t[i].patient_id : i \in DOMAIN t}

RowCount(t, id) == Len(RowsOf(t, id))

\* the data lines of output.csv that belong to patient id
CsvCount(id) ==
    Cardinality({i \in DOMAIN output_csv :
                    i > 1 /\ output_csv[i][1] = ToString(id)})

UniqueDemoIds == \A id \in IdsOf(raw_demo) : RowCount(raw_demo, id) = 1

\* the patient of the end-to-end scenario: gender "M" and 7 chronic
\* conditions in the demographics file, a missing drop_off in the visits
\* file, two log events of which one is critical
ScenarioPatient(id) ==
    /\ RowCount(raw_demo, id) = 1
    /\ \A i \in DOMAIN raw_demo : raw_demo[i].patient_id = id =>
          /\ raw_demo[i].gender = Some("M")
          /\ raw_demo[i].chronic_conditions = Some(7)
    /\ RowCount(raw_visits, id) = 1
    /\ \A i \in DOMAIN raw_visits : raw_visits[i].patient_id = id =>
          IsNull(raw_visits[i].drop_off)
    /\ RowCount(raw_logs, id) = 2
    /\ Len(SelectSeq(raw_logs, LAMBDA r :
          r.patient_id = id /\ r.log_type = Some("critical"))) = 1

\* C1: the integrated row of the scenario patient has gender "Male",
\* chronic_conditions 5, drop_off 0, log_count 2 and critical_logs 1.
C1_EndToEndCleaned ==
    Integrated =>
        \A i \in DOMAIN df_final :
            ScenarioPatient(df_final[i].patient_id) =>
                /\ df_final[i].gender = Some("Male")
                /\ df_final[i].chronic_conditions = Some(5)
                /\ df_final[i].drop_off = Some(0)
                /\ df_final[i].log_count = Some(2)
                /\ df_final[i].critical_logs = Some(1)

\* C2 as stated: with unique demographic ids, every patient present in both
\* demographics and visits has exactly one row in df_final and in output.csv,
\* whatever the number of its visit rows and log events.
C2_OneRowPerPatient ==
    (Integrated /\ UniqueDemoIds) =>
        \A id \in IdsOf(raw_demo) \cap IdsOf(raw_visits) :
            /\ RowCount(df_final, id) = 1
            /\ Exported => CsvCount(id) = 1

\* C2 as amended: with unique demographic ids, every patient present in both
\* demographics and visits has one row in df_final and in output.csv for each
\* of its visit rows (so exactly one when it has one visit row), whatever the
\* number of its log events.
C2_OneRowPerVisit ==
    (Integrated /\ UniqueDemoIds) =>
        \A id \in IdsOf(raw_demo) \cap IdsOf(raw_visits) :
            /\ RowCount(df_final, id) = RowCount(raw_visits, id)
            /\ Exported => CsvCount(id) = RowCount(raw_visits, id)

C2_Witness ==
    /\ Exported
    /\ UniqueDemoIds
    /\ \E id \in IdsOf(raw_demo) :
          /\ RowCount(raw_visits, id) = 2
          /\ RowCount(raw_logs, id) = 2
          /\ RowCount(df_final, id) = 2
          /\ CsvCount(id) = 2

\* C3 as stated: after preprocess_visits the drop_off of every visit row is
\* 0 or 1, whatever the raw value.
C3_DropOffBinary ==
    VisitsCleaned =>
        \A i \in DOMAIN df_visits : df_visits[i].drop_off \in {Some(0), Some(1)}

\* C3 as amended: after preprocess_visits the drop_off of every visit row is
\* a present integer; it is 0 or 1 exactly when the raw value is missing, 0
\* or 1, and any other raw integer is kept as it is.
C3_DropOffInteger ==
    VisitsCleaned =>
        /\ DOMAIN df_visits = DOMAIN raw_visits
        /\ \A i \in DOMAIN df_visits :
              LET raw == raw_visits[i].drop_off
                  d == df_visits[i].drop_off
              IN  /\ ~IsNull(d)
                  /\ Get(d) \in Int
                  /\ d \in {Some(0), Some(1)} <=> raw \in {None, Some(0), Some(1)}
                  /\ raw \notin {None, Some(0), Some(1)} => d = raw

C3_Witness ==
    /\ VisitsCleaned
    /\ \E i \in DOMAIN raw_visits :
          raw_visits[i].drop_off = Some(2) /\ df_visits[i].drop_off = Some(2)
    /\ \E i \in DOMAIN raw_visits :
          IsNull(raw_visits[i].drop_off) /\ df_visits[i].drop_off = Some(0)

\* C4: preprocess_visits maps a missing drop_off to 0, leaves a present 0 or
\* 1 unchanged, and drops no rows.
C4_MissingDropOffIsZero ==
    VisitsCleaned =>
        /\ Len(df_visits) = Len(raw_visits)
        /\ \A i \in DOMAIN raw_visits :
              /\ df_visits[i].patient_id = raw_visits[i].patient_id
              /\ IsNull(raw_visits[i].drop_off) =>
                    df_visits[i].drop_off = Some(0)
              /\ raw_visits[i].drop_off \in {Some(0), Some(1)} =>
                    df_visits[i].drop_off = raw_visits[i].drop_off

C4_Witness ==
    /\ VisitsCleaned
    /\ Len(raw_visits) = 2
    /\ IsNull(raw_visits[1].drop_off) \/ IsNull(raw_visits[2].drop_off)
    /\ Some(1) \in {raw_visits[1].drop_off, raw_visits[2].drop_off}
    /\ Some(1) \in {df_visits[1].drop_off, df_visits[2].drop_off}
    /\ Some(0) \in {df_visits[1].drop_off, df_visits[2].drop_off}

\* C5: after preprocess_demographics every gender is Male, Female or Other:
\* raw "M" or "Male" gives Male, raw "F" or "Female" gives Female, and every
\* other raw value, a missing one included, gives Other.
C5_GenderLookup ==
    DemoCleaned =>
        /\ Len(df_demo) = Len(raw_demo)
        /\ \A i \in DOMAIN df_demo :
              LET raw == raw_demo[i].gender
                  g == df_demo[i].gender
              IN  /\ g \in {Some("Male"), Some("Female"), Some("Other")}
                  /\ raw \in {Some("M"), Some("Male")} => g = Some("Male")
                  /\ raw \in {Some("F"), Some("Female")} => g = Some("Female")
                  /\ raw \notin {Some("M"), Some("Male"), Some("F"), Some("Female")}
                        => g = Some("Other")

C5_Witness ==
    /\ DemoCleaned
    /\ \E i \in DOMAIN raw_demo :
          IsNull(raw_demo[i].gender) /\ df_demo[i].gender = Some("Other")
    /\ \E i \in DOMAIN raw_demo :
          raw_demo[i].gender = Some("Male") /\ df_demo[i].gender = Some("Male")

\* C6 as stated: after preprocess_demographics every row, a row whose raw
\* chronic_conditions is missing included, has chronic_conditions <= 5: a raw
\* value above 5 becomes 5 and a raw value at or below 5 is unchanged.
C6_ChronicAtMostFive ==
    DemoCleaned =>
        \A i \in DOMAIN df_demo :
            LET raw == raw_demo[i].chronic_conditions
                c == df_demo[i].chronic_conditions
            IN  /\ ~IsNull(c) /\ Get(c) <= 5
                /\ (~IsNull(raw) /\ Get(raw) > 5) => c = Some(5)
                /\ (~IsNull(raw) /\ Get(raw) <= 5) => c = raw

\* C6 as amended: after preprocess_demographics every row whose raw
\* chronic_conditions is present has chronic_conditions <= 5 (a raw value
\* above 5 becomes 5, a raw value at or below 5, negative ones included, is
\* unchanged); a row whose raw chronic_conditions is missing keeps it missing.
C6_ChronicCappedWhenPresent ==
    DemoCleaned =>
        /\ Len(df_demo) = Len(raw_demo)
        /\ \A i \in DOMAIN df_demo :
              LET raw == raw_demo[i].chronic_conditions
                  c == df_demo[i].chronic_conditions
              IN  /\ IsNull(raw) <=> IsNull(c)
                  /\ ~IsNull(raw) => Get(c) <= 5
                  /\ (~IsNull(raw) /\ Get(raw) > 5) => c = Some(5)
                  /\ (~IsNull(raw) /\ Get(raw) <= 5) => c = raw

C6_Witness ==
    /\ DemoCleaned
    /\ \E i \in DOMAIN raw_demo :
          raw_demo[i].chronic_conditions = Some(7)
              /\ df_demo[i].chronic_conditions = Some(5)
    /\ \E i \in DOMAIN raw_demo :
          raw_demo[i].chronic_conditions \in {None, Some(-1)}
              /\ df_demo[i].chronic_conditions = raw_demo[i].chronic_conditions

\* the four values a patient without log events is given
NoLogSentinels(r) ==
    /\ r.log_count = Some(0)
    /\ r.critical_logs = Some(0)
    /\ r.unique_events = Some(0)
    /\ r.most_recent_department = Some("Unknown")

\* C7: an integrated row whose patient has no log event has log_count 0,
\* critical_logs 0, unique_events 0 and most_recent_department "Unknown", and
\* a row whose patient has a log event never has these four values together.
C7_NoLogSentinels ==
    Integrated =>
        \A i \in DOMAIN df_final :
            NoLogSentinels(df_final[i])
                <=> df_final[i].patient_id \notin IdsOf(raw_logs)

C7_Witness ==
    /\ Integrated
    /\ \E i \in DOMAIN df_final :
          df_final[i].patient_id \notin IdsOf(raw_logs)
              /\ NoLogSentinels(df_final[i])
    /\ \E i \in DOMAIN df_final :
          df_final[i].patient_id \in IdsOf(raw_logs)
              /\ df_final[i].log_count = Some(2)

\* C8: a patient id is in the integrated table exactly when it is in both
\* the demographics and the visits input; log events add and remove none.
C8_PatientsOfBothInputs ==
    Integrated => IdsOf(df_final) = IdsOf(raw_demo) \cap IdsOf(raw_visits)

C8_Witness ==
    /\ Integrated
    /\ IdsOf(df_final) # {}
    /\ IdsOf(raw_demo) \ IdsOf(raw_visits) # {}
    /\ IdsOf(raw_logs) \ IdsOf(df_final) # {}
    /\ IdsOf(df_final) \ IdsOf(raw_logs) # {}

\* the number of times row r occurs in table t
Occurrences(t, r) == Len(SelectSeq(t, LAMBDA x : x = r))

RowsIn(t) == {t[i] : i \in DOMAIN t}

\* C9: the balanced table holds every drop_off = 1 row of df_clustered as
\* often as df_clustered does, every drop_off = 0 row at most as often as
\* df_clustered does, and no other row.
C9_BalancerRetention ==
    Balanced =>
        \A r \in RowsIn(df_clustered) \cup RowsIn(df_balanced) :
            /\ r.drop_off = Some(1) =>
                  Occurrences(df_balanced, r) = Occurrences(df_clustered, r)
            /\ r.drop_off = Some(0) =>
                  Occurrences(df_balanced, r) <= Occurrences(df_clustered, r)
            /\ r.drop_off \notin {Some(0), Some(1)} =>
                  Occurrences(df_balanced, r) = 0

C9_Witness ==
    /\ Balanced
    /\ \E r \in RowsIn(df_clustered) :
          r.drop_off = Some(1) /\ Occurrences(df_balanced, r) = 2
    /\ \E r \in RowsIn(df_clustered) :
          /\ r.drop_off = Some(0)
          /\ Occurrences(df_clustered, r) = 2
          /\ Occurrences(df_balanced, r) = 1

\* n/d is within one row of t, or within a factor of two of t
RoughlyMatches(n, d, t) ==
    \/ (n - d * t < d /\ d * t - n < d)
    \/ (d * t <= 2 * n /\ n <= 2 * d * t)

\* C10: the sampling fraction follows the minority count of the table being
\* balanced: the number of majority rows it keeps on average, fraction times
\* the majority count, roughly matches the minority count (or the majority
\* count, when there are fewer majority than minority rows).
C10_FractionFollowsMinority ==
    Balanced =>
        LET major == Len(df_major(df_clustered))
            minor == Len(df_minor(df_clustered))
            target == IF minor < major THEN minor ELSE major
        IN  RoughlyMatches(fraction[1] * major, fraction[2], target)

\* the log events of patient id, timestamps parsed
EventsOf(id) == RowsOf(preprocess_logs(raw_logs), id)

\* the parsed timestamps of the log events of patient id
TimesOf(id) ==
    {Get(EventsOf(id)[j].timestamp) :
        j \in {k \in DOMAIN EventsOf(id) : ~IsNull(EventsOf(id)[k].timestamp)}}

\* the events of patient id with the latest parsed timestamp
LatestEventsOf(id) ==
    {j \in DOMAIN EventsOf(id) :
        /\ ~IsNull(EventsOf(id)[j].timestamp)
        /\ \A u \in TimesOf(id) : u <= Get(EventsOf(id)[j].timestamp)}

\* C16: the log features hold exactly one row for every patient id of the
\* logs; its log_count is the number of the patient's events, critical_logs
\* the number of them with log_type "critical", and unique_events the number
\* of distinct event descriptions among them.
C16_LogAggregation ==
    Integrated =>
        /\ IdsOf(df_log_features) = IdsOf(raw_logs)
        /\ \A id \in IdsOf(raw_logs) : RowCount(df_log_features, id) = 1
        /\ \A i \in DOMAIN df_log_features :
              LET r == df_log_features[i]
                  mine == {j \in DOMAIN raw_logs :
                              raw_logs[j].patient_id = r.patient_id}
              IN  /\ r.log_count = Some(Cardinality(mine))
                  /\ r.critical_logs = Some(Cardinality(
                        {j \in mine : raw_logs[j].log_type = Some("critical")}))
                  /\ r.unique_events = Some(Cardinality(
                        {raw_logs[j].event : j \in mine} \ {None}))

C16_Witness ==
    /\ Integrated
    /\ \E i \in DOMAIN df_log_features :
          /\ df_log_features[i].log_count = Some(2)
          /\ df_log_features[i].critical_logs = Some(1)
          /\ df_log_features[i].unique_events = Some(1)

\* C17 as stated: every patient with a log event has exactly one feature
\* row, whose most_recent_department is the department of one of the
\* patient's events with the maximum timestamp; most_recent_department is
\* "Unknown" only for patients with no log events.
C17_MostRecentDepartment ==
    Integrated =>
        /\ \A id \in IdsOf(raw_logs) :
              /\ RowCount(df_log_features, id) = 1
              /\ \E j \in LatestEventsOf(id) :
                    RowsOf(df_log_features, id)[1].most_recent_department
                        = EventsOf(id)[j].department
        /\ \A i \in DOMAIN df_final :
              df_final[i].most_recent_department = Some("Unknown")
                  => df_final[i].patient_id \notin IdsOf(raw_logs)

\* C17 as amended: every patient with a log event has exactly one feature
\* row, also when events tie on the maximum timestamp.  When one of the
\* patient's events has a timestamp in the expected format, the row's
\* most_recent_department is the department of one of the events with the
\* maximum timestamp, or "Unknown" when that event has no department; when
\* none has, it is "Unknown".  Patients with no log events get "Unknown" too.
C17_MostRecentOrUnknown ==
    Integrated =>
        /\ \A id \in IdsOf(raw_logs) :
              /\ RowCount(df_log_features, id) = 1
              /\ LET d == RowsOf(df_log_features, id)[1].most_recent_department
                 IN  IF TimesOf(id) = {} THEN d = Some("Unknown")
                     ELSE \E j \in LatestEventsOf(id) :
                             d = IF IsNull(EventsOf(id)[j].department)
                                 THEN Some("Unknown")
                                 ELSE EventsOf(id)[j].department
        /\ \A i \in DOMAIN df_final :
              LET id == df_final[i].patient_id
              IN  df_final[i].most_recent_department =
                      IF id \in IdsOf(raw_logs)
                      THEN RowsOf(df_log_features, id)[1].most_recent_department
                      ELSE Some("Unknown")

C17_Witness ==
    /\ Integrated
    /\ \E id \in IdsOf(raw_logs) :
          /\ Cardinality(TimesOf(id)) = 2
          /\ RowsOf(df_log_features, id)[1].most_recent_department = Some("Ortho")
    /\ \E i \in DOMAIN df_final :
          df_final[i].most_recent_department = Some("Unknown")

\* C20: the left join with the log features keeps the number of rows: the
\* log features hold at most one row per patient id, and df_final has as
\* many rows as there are matching pairs of a demographic and a visit row.
C20_LeftJoinKeepsRows ==
    Integrated =>
        /\ \A id \in IdsOf(df_log_features) : RowCount(df_log_features, id) = 1
        /\ Len(df_final) = Len(df_patient)
        /\ Len(df_final) = Cardinality(
              {p \in (DOMAIN raw_demo) \X (DOMAIN raw_visits) :
                  raw_demo[p[1]].patient_id = raw_visits[p[2]].patient_id})

C20_Witness ==
    /\ Integrated
    /\ Len(df_final) = 2
    /\ \E id \in IdsOf(df_final) : RowCount(raw_logs, id) = 2
    /\ \E id \in IdsOf(df_final) : RowCount(raw_logs, id) = 0

\* the encoding and scaling cell has run to its end
Encoded == pc = "cluster_ready"

\* the names of the categorical columns
CategoricalNames == {categorical_cols[k] : k \in DOMAIN categorical_cols}

\* the names of the numerical columns
NumericalNames == {numerical_cols[k] : k \in DOMAIN numerical_cols}

\* the positions of the nonzero entries of a vector
NonZero(v) == {k \in DOMAIN v : v[k] # 0}

\* the rows of df_final whose column c holds a value
Present(c) == {i \in DOMAIN df_final : ~IsNull(df_final[i][c])}

\* the rows of df_final whose column c holds no value
Missing(c) == {i \in DOMAIN df_final : IsNull(df_final[i][c])}

\* C12: for every value of a categorical column seen when the indexer was
\* fitted, the position of the nonzero entry of its one-hot vector gives
\* back the index the indexer assigned, and two different seen values of a
\* column have different indices.
C12_OneHotRoundTrip ==
    Encoded =>
        \A c \in CategoricalNames :
            /\ \A i \in Present(c) :
                  NonZero(df_final[i][c \o "_encoded"])
                      = {df_final[i][c \o "_index"] + 1}
            /\ \A i, j \in Present(c) :
                  df_final[i][c] # df_final[j][c]
                      => df_final[i][c \o "_index"] # df_final[j][c \o "_index"]

C12_Witness ==
    /\ Encoded
    /\ \E i, j \in Present("gender") :
          /\ df_final[i].gender = Some("M")
          /\ df_final[j].gender = Some("Female")
          /\ df_final[i].gender_index = 1
          /\ df_final[i].gender_encoded = <<0, 1>>
          /\ df_final[j].gender_encoded = <<1, 0>>

\* C13 as stated: in every row the encoded value of every categorical
\* column has exactly one nonzero entry, also when the value is missing and
\* falls into the bucket for unseen values.
C13_ExactlyOneNonZero ==
    Encoded =>
        \A c \in CategoricalNames : \A i \in DOMAIN df_final :
            Cardinality(NonZero(df_final[i][c \o "_encoded"])) = 1

\* C13 as amended: the encoded value of a categorical column has exactly one
\* nonzero entry in the rows where the column holds a value; in the rows
\* where it is missing the vector has no nonzero entry at all, and the
\* vector has one entry per seen value, none for the unseen bucket.
C13_OneNonZeroWhenSeen ==
    Encoded =>
        \A c \in CategoricalNames :
            /\ \A i \in Present(c) :
                  Cardinality(NonZero(df_final[i][c \o "_encoded"])) = 1
            /\ \A i \in Missing(c) :
                  NonZero(df_final[i][c \o "_encoded"]) = {}
            /\ \A i \in DOMAIN df_final :
                  Len(df_final[i][c \o "_encoded"])
                      = Cardinality({df_final[j][c] : j \in Present(c)})

C13_Witness ==
    /\ Encoded
    /\ \E i \in Missing("has_mobile_app") :
          df_final[i].has_mobile_app_encoded = <<0>>
    /\ \E i \in Present("has_mobile_app") :
          df_final[i].has_mobile_app_encoded = <<1>>

\* C14: the encoder does not fail on a categorical value: a missing value
\* gets the one index kept for unseen values, which differs from the index
\* of every seen value, and encoding goes on; the cell fails only on a
\* missing numerical value.
C14_UnseenIndex ==
    pc \in {"cluster_ready", "failed"} =>
        /\ \A c \in CategoricalNames :
              /\ \A i \in Missing(c) :
                    /\ df_final[i][c \o "_index"]
                           = Cardinality({df_final[j][c] : j \in Present(c)})
                    /\ \A j \in Present(c) :
                          df_final[j][c \o "_index"] # df_final[i][c \o "_index"]
              /\ \A i \in DOMAIN df_final :
                    DOMAIN df_final[i][c \o "_encoded"]
                        = 1..Cardinality({df_final[j][c] : j \in Present(c)})
        /\ pc = "failed" =>
              \E c \in NumericalNames : Missing(c) # {}

C14_Witness ==
    /\ Encoded
    /\ \E i \in Missing("gender") : df_final[i].gender_index = 2
    /\ \E i \in Present("gender") : df_final[i].gender_index = 1

\* C15: for every numerical column whose values are all the same the scaler
\* does not fail or divide by zero, and every scaled value of the column is
\* 0; the cell fails only on a missing numerical value.
C15_ConstantColumnScalesToZero ==
    /\ Encoded =>
          \A c \in NumericalNames :
              (\A i, j \in DOMAIN df_final : df_final[i][c] = df_final[j][c])
                  => \A i \in DOMAIN df_final :
                        /\ ~df_final[i][c \o "_scaled"][1].nan
                        /\ df_final[i][c \o "_scaled"][1].centered = 0
    /\ pc = "failed" => \E c \in NumericalNames : Missing(c) # {}

C15_Witness ==
    /\ Encoded
    /\ Len(df_final) = 3
    /\ \A i, j \in DOMAIN df_final :
          df_final[i].chronic_conditions = df_final[j].chronic_conditions
    /\ \A i \in DOMAIN df_final :
          df_final[i].chronic_conditions_scaled[1].centered = 0
    /\ \E i \in DOMAIN df_final : df_final[i].log_count_scaled[1].centered > 0

\* the table t without its feature vector and its cluster label
Unlabelled(t) == drop(drop(drop(t, "features"), "cluster"), "patient_segment")

\* the cluster labels KMeans can give
Segments == 0..(NumClusters - 1)

\* C18: the segmenter gives every row of the encoded table exactly one
\* integer label in {0, 1, 2} and adds or drops no row; under the name
\* patient_segment the label is part of the supervised feature vector and of
\* the rows of the predictions output.
C18_SegmentLabels ==
    /\ pc = "rename" =>
          /\ Unlabelled(df_clustered) = df_preprocessed
          /\ \A i \in DOMAIN df_clustered : df_clustered[i].cluster \in Segments
    /\ pc \in {"balance", "assemble", "split", "train", "predictions", "done"} =>
          /\ Unlabelled(df_clustered) = df_preprocessed
          /\ \A i \in DOMAIN df_clustered :
                df_clustered[i].patient_segment \in Segments
    /\ \A i \in DOMAIN df_ml_ready :
          /\ df_ml_ready[i].patient_segment \in Segments
          /\ df_ml_ready[i].features[Len(df_ml_ready[i].features)]
                = df_ml_ready[i].patient_segment
          /\ \E j \in DOMAIN df_clustered :
                drop(df_clustered, "features")[j] = drop(df_ml_ready, "features")[i]
    /\ pc = "done" =>
          /\ Len(final_preds) = Len(test)
          /\ \A i \in DOMAIN final_preds :
                /\ final_preds[i].patient_segment \in Segments
                /\ final_preds[i].patient_segment = test[i].patient_segment
                /\ \E j \in DOMAIN df_clustered :
                      /\ df_clustered[j].patient_segment
                            = final_preds[i].patient_segment
                      /\ df_clustered[j].drop_off = final_preds[i].drop_off

C18_Witness ==
    /\ pc = "done"
    /\ Len(df_clustered) = 2
    /\ df_clustered[1].patient_segment # df_clustered[2].patient_segment
    /\ \E i \in DOMAIN final_preds : final_preds[i].patient_segment = 2
    /\ \E i \in DOMAIN train : train[i].patient_segment = 0

\* the results that runs of the balancing, assembling and splitting cells can
\* give from the same df_clustered with the same seeds
RunOutcomes ==
    {[df_balanced |-> drop(b, "features"),
      split |-> random_split(
                    vector_assembler(drop(b, "features"), ml_features(b)),
                    split_seed)] :
        b \in order_by_rand(union(
                 sample(df_major(df_clustered), sample_fraction, sample_seed),
                 df_minor(df_clustered)))}

\* C11: resampling and splitting are deterministic: two runs on the same
\* input give the same balanced table in the same row order and the same
\* assignment of rows to the train and test splits.
C11_SameInputSameResult ==
    pc = "train" =>
        RunOutcomes = {[df_balanced |-> df_balanced,
                        split |-> [train |-> train, test |-> test]]}

\* the rows of a table of predictions without the columns the classifier adds
WithoutPrediction(t) == drop(drop(t, "prediction"), "probability")

\* C19: every row of the balanced table is in exactly one of the train and
\* test splits; the three classifiers are fitted on the same train split and
\* nothing else; every metric and every row of the exported predictions is
\* computed from rows of the test split only.
C19_TrainTestDiscipline ==
    /\ pc \in {"train", "predictions", "done"} =>
          /\ Len(df_ml_ready) = Len(df_balanced)
          /\ drop(df_ml_ready, "features") = df_balanced
          /\ Len(train) + Len(test) = Len(df_ml_ready)
          /\ \A r \in RowsIn(df_ml_ready) :
                Occurrences(train, r) + Occurrences(test, r)
                    = Occurrences(df_ml_ready, r)
    /\ pc \in {"predictions", "done"} =>
          /\ models.lr_model.fitted_on = train
          /\ models.rf_model.fitted_on = train
          /\ models.gbt_model.fitted_on = train
          /\ WithoutPrediction(predictions.lr_preds) = test
          /\ WithoutPrediction(predictions.rf_preds) = test
          /\ WithoutPrediction(predictions.gbt_preds) = test
          /\ \A k \in DOMAIN results :
                /\ WithoutPrediction(results[k][2].of) = test
                /\ WithoutPrediction(results[k][3].of) = test
                /\ \A i \in DOMAIN results[k][2].of :
                      /\ results[k][2].of[i].prediction.of.fitted_on = train
                      /\ results[k][2].of[i].prediction.at = test[i].features
    /\ pc = "done" =>
          /\ Len(final_preds) = Len(test)
          /\ \A i \in DOMAIN final_preds :
                /\ final_preds[i].drop_off = test[i].drop_off
                /\ final_preds[i].prediction.of = models.gbt_model
                /\ final_preds[i].prediction.at = test[i].features
                /\ final_preds[i].prob_dropoff.of.of = models.gbt_model
                /\ final_preds[i].prob_dropoff.of.at = test[i].features

C19_Witness ==
    /\ pc = "done"
    /\ Len(train) = 2
    /\ Len(test) = 2
    /\ Len(final_preds) = 2
    /\ Len(results) = 3
    /\ \E r \in RowsIn(df_ml_ready) :
          Occurrences(train, r) = 1 /\ Occurrences(test, r) = 1

\* every row of t has drop_off 0 or drop_off 1
BinaryLabels(t) == \A i \in DOMAIN t : t[i].drop_off \in {Some(0), Some(1)}

\* the number of rows of t whose drop_off is d
LabelCount(t, d) == Cardinality({i \in DOMAIN t : t[i].drop_off = d})

\* C21: a row reaches the balanced table, and with it the train and test
\* splits, the predictions and the predictions file, only if its drop_off is
\* exactly 0 or 1; a row whose drop_off is missing or another value is in
\* neither the majority nor the minority part and is left out, not counted
\* as drop_off = 0.
C21_OnlyBinaryLabelsReachBalanced ==
    /\ pc # "balance" =>
          /\ BinaryLabels(df_major_sampled)
          /\ BinaryLabels(df_balanced)
          /\ BinaryLabels(df_ml_ready)
          /\ BinaryLabels(train)
          /\ BinaryLabels(test)
          /\ \A i \in DOMAIN df_clustered :
                df_clustered[i].drop_off \notin {Some(0), Some(1)} =>
                    /\ df_clustered[i] \notin RowsIn(df_major(df_clustered))
                    /\ df_clustered[i] \notin RowsIn(df_minor(df_clustered))
                    /\ drop(df_clustered, "features")[i]
                           \notin RowsIn(drop(df_balanced, "features"))
          /\ LabelCount(df_major_sampled, Some(0))
                <= LabelCount(df_clustered, Some(0))
          /\ LabelCount(df_balanced, Some(0)) = Len(df_major_sampled)
          /\ LabelCount(df_balanced, Some(1)) = LabelCount(df_clustered, Some(1))
    /\ pc \in {"predictions", "done"} =>
          /\ BinaryLabels(predictions.lr_preds)
          /\ BinaryLabels(predictions.rf_preds)
          /\ BinaryLabels(predictions.gbt_preds)
    /\ pc = "done" => BinaryLabels(final_preds)

C21_Witness ==
    /\ pc = "done"
    /\ LabelCount(df_clustered, None) = 1
    /\ LabelCount(df_clustered, Some(2)) = 1
    /\ LabelCount(df_clustered, Some(0)) = 1
    /\ LabelCount(df_clustered, Some(1)) = 1
    /\ Len(df_balanced) = 2
    /\ Len(train) = 1
    /\ Len(final_preds) = 1

\* the entries of the scaled and the encoded columns of row r, in the order
\* of the columns of df_preprocessed
ScaledAndEncoded(r) ==
    r.chronic_conditions_scaled \o r.log_count_scaled
        \o r.critical_logs_scaled \o r.unique_events_scaled
        \o r.gender_encoded \o r.most_recent_department_encoded
        \o r.has_mobile_app_encoded

\* every feature vector of t holds the scaled and encoded entries of its row
ClusteringInputsOnly(t) ==
    \A i \in DOMAIN t : t[i].features = ScaledAndEncoded(t[i])

\* every feature vector of t holds the scaled and encoded entries of its
\* row and then its patient_segment
ClassifierInputsOnly(t) ==
    \A i \in DOMAIN t :
        t[i].features = ScaledAndEncoded(t[i]) \o <<t[i].patient_segment>>

\* C22: no label leakage.  The feature vector used for clustering is made
\* of the scaled and the encoded columns only, the one used by the
\* classifiers of those columns and patient_segment; neither drop_off nor
\* the earlier clustering vector is an input of either, so rows that differ
\* in drop_off alone have the same vector.
C22_NoLabelLeakage ==
    /\ ClusteringInputsOnly(df_cluster_ready)
    /\ pc \in {"rename", "balance"} => ClusteringInputsOnly(df_clustered)
    /\ ClassifierInputsOnly(df_ml_ready)
    /\ ClassifierInputsOnly(train)
    /\ ClassifierInputsOnly(test)
    /\ \A i, j \in DOMAIN df_ml_ready :
          drop(drop(df_ml_ready, "drop_off"), "features")[i]
              = drop(drop(df_ml_ready, "drop_off"), "features")[j]
          => df_ml_ready[i].features = df_ml_ready[j].features
    /\ pc \in {"predictions", "done"} =>
          /\ \A i \in DOMAIN train :
                models.gbt_model.fitted_on[i].features
                    = ScaledAndEncoded(train[i]) \o <<train[i].patient_segment>>
          /\ \A i \in DOMAIN predictions.gbt_preds :
                predictions.gbt_preds[i].prediction.at
                    = ScaledAndEncoded(test[i]) \o <<test[i].patient_segment>>

C22_Witness ==
    /\ pc = "done"
    /\ Len(df_ml_ready) = 2
    /\ df_ml_ready[1].drop_off # df_ml_ready[2].drop_off
    /\ df_ml_ready[1].features = df_ml_ready[2].features
    /\ Len(df_ml_ready[1].features) = 7
    /\ Len(df_cluster_ready[1].features) = 6

====
